---- MODULE Spec2Model ----
(***************************************************************************)
(* Model of the snake mini-game (SnakeGame component).  The repository     *)
(* holds two copies of the component: src/unnamed/part_000 (centre         *)
(* exclusion zone for the food, collision loop without early return) and   *)
(* src/components/SnakeGame.tsx (plain food spawn, `return` right after a  *)
(* collision reset).  The variable `build` says which copy is running.     *)
(*                                                                         *)
(* Numbers.  Lengths are carried in tenths of a pixel (Px(n) = 10*n), so   *)
(* SPEED = 2.5 px is 25.  Angles are carried in whole degrees (PI = 180);  *)
(* Math.cos / Math.sin are table look-ups rounded to 1/1000 and the        *)
(* products with SPEED and TURN_SPEED are rounded to the grid.             *)
(***************************************************************************)
EXTENDS Integers, Sequences, FiniteSets, TLC

VARIABLES build, surface, reported, spawn, listening, mounted, framePending,
          width, height, pos, angle, targetAngle, history, food, score,
          isPlaying, isPlayingRef, headPos, ticks, events, last,
          profile, digests, now, out, firstUse, insights, topics, notes,
          backup

vars == << build, surface, reported, spawn, listening, mounted, framePending,
           width, height, pos, angle, targetAngle, history, food, score,
           isPlaying, isPlayingRef, headPos, ticks, events, last,
           profile, digests, now, out, firstUse, insights, topics, notes,
           backup >>

\* the storage service: the stored profile and digest history, the clock,
\* what the last call returned, and when access was first checked on a store
\* that held no subscription; backup is the last export, kept by the user
store == << profile, digests, now, out, firstUse, insights, topics, notes,
            backup >>
\* the other stored lists: saved insights, selected topic ids and notes; a
\* key that is not there reads as the empty list
shelf == << insights, topics, notes >>
\* the game component
game == << build, surface, reported, spawn, listening, mounted, framePending,
           width, height, pos, angle, targetAngle, history, food, score,
           isPlaying, isPlayingRef, headPos, ticks, events, last >>

\* which copy runs, whether the canvas and its 2D context could be had, what
\* the component reported to its caller, and the locals of a spawnFood call
\* that is followed draw by draw
setup == << build, surface, reported, spawn, store >>

gameVars == << pos, angle, targetAngle, history, food, score >>

(* ------------------------------ bounds -------------------------------- *)
\* Spec: every input, short runs
MaxTicks == 6
MaxEvents == 2
\* SpecGrow: no input events, runs long enough for ten pickups
GrowTicks == 13
\* SpecWrap: resize events only, runs long enough to meet an old wrap point
WrapTicks == 17
WrapEvents == 2
\* SpecLong: no input events, runs long enough to grow by a whole pickup
LongTicks == 44
\* SpecSub, SpecTrial, SpecDigest: how many days the clock may run
SubDays == 8
CodeDays == 1
TrialSpan == 8
DigestDays == 2
StreakDays == 3
BackupDays == 1
MaxNotes == 1
InsightDays == 1
\* SpecLife: mount with or without a drawing surface, play, unmount
LifeTicks == 3
LifeEvents == 1

(* ------------------------- program constants -------------------------- *)
Px(n) == 10 * n
SPEED == 25
TURN_NUM == 15
TURN_DEN == 100
TAIL_LENGTH == 20
GROWTH_PER_FOOD == 10
SEGMENT_SPACING == 4
PI == 180
margin == 20
forbiddenW == 340
forbiddenH == 250
MaxAttempts == 100
EatRadius == 15
HitRadius == 5
JumpLimit == 50
FirstSample == 15

Builds == { "part_000", "components" }

(* --------------------------- arithmetic ------------------------------- *)
Abs(n) == IF n < 0 THEN -n ELSE n
Sgn(n) == IF n < 0 THEN -1 ELSE 1
\* division rounding toward zero / to nearest, symmetric in the sign
Trunc(n, d) == Sgn(n) * (Abs(n) \div d)
Round(n, d) == Sgn(n) * ((2 * Abs(n) + d) \div (2 * d))
Min(a, b) == IF a < b THEN a ELSE b

CosTable ==
  << 1000, 1000, 999, 999, 998, 996, 995, 993, 990, 988, 985, 982, 978, 974,
     970, 966, 961, 956, 951, 946, 940, 934, 927, 921, 914, 906, 899, 891,
     883, 875, 866, 857, 848, 839, 829, 819, 809, 799, 788, 777, 766, 755,
     743, 731, 719, 707, 695, 682, 669, 656, 643, 629, 616, 602, 588, 574,
     559, 545, 530, 515, 500, 485, 469, 454, 438, 423, 407, 391, 375, 358,
     342, 326, 309, 292, 276, 259, 242, 225, 208, 191, 174, 156, 139, 122,
     105, 87, 70, 52, 35, 17, 0 >>

\* Math.cos, Math.sin of an angle in degrees, times 1000
Cos(a) ==
  LET m == a % (2 * PI)
  IN  IF m <= 90 THEN CosTable[m + 1]
      ELSE IF m <= 180 THEN -CosTable[180 - m + 1]
      ELSE IF m <= 270 THEN -CosTable[m - 180 + 1]
      ELSE CosTable[360 - m + 1]
Sin(a) == Cos(a - 90)

\* Math.atan2(dy, dx) in (-PI, PI], to the nearest degree: inside a quadrant
\* the cross product of the direction a with (dx, dy) changes sign once
Cross(a, dy, dx) == Cos(a) * dy - Sin(a) * dx
QuadrantBase(dy, dx) ==
  IF dx > 0 /\ dy > 0 THEN 0
  ELSE IF dx < 0 /\ dy > 0 THEN 90
  ELSE IF dx < 0 /\ dy < 0 THEN -180
  ELSE -90
Atan2(dy, dx) ==
  IF dy = 0 THEN (IF dx < 0 THEN PI ELSE 0)
  ELSE IF dx = 0 THEN (IF dy > 0 THEN 90 ELSE -90)
  ELSE LET q == QuadrantBase(dy, dx)
           a == CHOOSE c \in q..(q + 89) :
                  Cross(c, dy, dx) >= 0 /\ Cross(c + 1, dy, dx) < 0
       IN  IF Abs(Cross(a + 1, dy, dx)) < Cross(a, dy, dx) THEN a + 1 ELSE a

DistSq(p, q) == (p.x - q.x) * (p.x - q.x) + (p.y - q.y) * (p.y - q.y)
Sq(n) == n * n

(* ------------------------------ inputs -------------------------------- *)
\* container sizes (clientWidth, clientHeight) the browser may report
SizeA == [ w |-> Px(55), h |-> Px(150) ]
SizeB == [ w |-> Px(760), h |-> Px(200) ]
SizeZ == [ w |-> 0, h |-> 0 ]
InitSizes == { SizeA, SizeB }
ResizeSizes == { SizeA, SizeB, SizeZ }
\* values of Math.random(): 0.5 and 0.9375
RandVals == { [ num |-> 8, den |-> 16 ], [ num |-> 15, den |-> 16 ] }
Draws == RandVals \X RandVals
\* pointer positions (clientX, clientY)
Pointers == { [ x |-> Px(0), y |-> Px(0) ], [ x |-> Px(700), y |-> Px(199) ] }

(* ------------------------------ spawnFood ----------------------------- *)
Candidate(d, w, h) ==
  [ x |-> Px(margin) + (d[1].num * (w - 2 * Px(margin))) \div d[1].den,
    y |-> Px(margin) + (d[2].num * (h - 2 * Px(margin))) \div d[2].den ]

\* inside the centred forbidden rectangle (strict on all four sides)
InForbidden(p, w, h) ==
  /\ 2 * p.x > w - Px(forbiddenW) /\ 2 * p.x < w + Px(forbiddenW)
  /\ 2 * p.y > h - Px(forbiddenH) /\ 2 * p.y < h + Px(forbiddenH)

Fallback == [ x |-> Px(margin), y |-> Px(margin) ]

\* What the rejection loop can hold after at most n further iterations,
\* started with valid = false: a position it accepted, or NoSpot when every
\* draw so far was rejected.  n iterations are n \div 2 followed by the rest.
NoSpot == [ x |-> -1, y |-> -1 ]
RECURSIVE Attempts(_, _, _)
Attempts(n, w, h) ==
  IF n = 0 THEN { NoSpot }
  ELSE IF n = 1
  THEN LET c == { Candidate(d, w, h) : d \in Draws }
       IN  { p \in c : ~InForbidden(p, w, h) }
             \cup (IF \E p \in c : InForbidden(p, w, h) THEN { NoSpot } ELSE {})
  ELSE LET first == Attempts(n \div 2, w, h)
       IN  (first \ { NoSpot })
             \cup (IF NoSpot \in first THEN Attempts(n - n \div 2, w, h) ELSE {})

SpawnFrom(w, h) ==
  LET r == Attempts(MaxAttempts, w, h)
  IN  (r \ { NoSpot }) \cup (IF NoSpot \in r THEN { Fallback } ELSE {})

spawnFood(b, w, h) ==
  IF b = "part_000" THEN SpawnFrom(w, h)
  ELSE { Candidate(d, w, h) : d \in Draws }

(* ------------------------------ initGame ------------------------------ *)
StartPos(w, h) ==
  [ x |-> IF w > 0 THEN w - Px(50) ELSE Px(300),
    y |-> IF h > 0 THEN h - Px(30) ELSE Px(500) ]

InitHistory_Left(p) ==
  [ i \in 1..(TAIL_LENGTH * SEGMENT_SPACING) |->
      [ x |-> p.x - (i - 1) * SPEED, y |-> p.y ] ]
InitHistory(p) ==
  [ i \in 1..(TAIL_LENGTH * SEGMENT_SPACING) |->
      [ x |-> p.x + (i - 1) * SPEED, y |-> p.y ] ]

(* ------------------------------- loop --------------------------------- *)
\* 1. update direction
RECURSIVE Normalize(_)
Normalize(diff) ==
  IF diff <= -PI THEN Normalize(diff + 2 * PI)
  ELSE IF diff > PI THEN Normalize(diff - 2 * PI)
  ELSE diff

StepAngle_NoNormalize(a, t) == a + Trunc((t - a) * TURN_NUM, TURN_DEN)
StepAngle(a, t) == a + Trunc(Normalize(t - a) * TURN_NUM, TURN_DEN)

\* 2. move head
MoveHead(p, a) ==
  [ x |-> p.x + Round(Cos(a) * SPEED, 1000),
    y |-> p.y + Round(Sin(a) * SPEED, 1000) ]

\* 3. wraparound
WrapCoord_Clamp(c, bound) == IF c < 0 THEN 0 ELSE IF c > bound THEN bound ELSE c
WrapCoord_Shift(c, bound) ==
  IF c < 0 THEN c + bound ELSE IF c > bound THEN c - bound ELSE c
WrapCoord(c, bound) ==
  LET c1 == IF c < 0 THEN bound ELSE c
  IN  IF c1 > bound THEN 0 ELSE c1
WrapHead(p, w, h) == [ x |-> WrapCoord(p.x, w), y |-> WrapCoord(p.y, h) ]

\* 4. update tail
CurrentLength_NoSpacing(s) == TAIL_LENGTH + s * GROWTH_PER_FOOD
CurrentLength(s) == (TAIL_LENGTH + s * GROWTH_PER_FOOD) * SEGMENT_SPACING
UpdateTail_NoPop(hist, p, s) == << p >> \o hist
UpdateTail_CapPlusOne(hist, p, s) ==
  LET h1 == << p >> \o hist
  IN  IF Len(h1) > CurrentLength(s) + 1 THEN SubSeq(h1, 1, Len(h1) - 1) ELSE h1
UpdateTail_PopTwo(hist, p, s) ==
  LET h1 == << p >> \o hist
  IN  IF Len(h1) > CurrentLength(s) THEN SubSeq(h1, 1, Len(h1) - 2) ELSE h1
UpdateTail_Alias(hist, p, s) ==
  LET h1 == << p, p >> \o Tail(hist)
  IN  IF Len(h1) > CurrentLength(s) THEN SubSeq(h1, 1, Len(h1) - 1) ELSE h1
UpdateTail(hist, p, s) ==
  LET h1 == << p >> \o hist
  IN  IF Len(h1) > CurrentLength(s) THEN SubSeq(h1, 1, Len(h1) - 1) ELSE h1

\* 5. food collision
Eats_XOnly(p, f) == Sq(p.x - f.x) < Sq(Px(EatRadius))
Eats(p, f) == DistSq(p, f) < Sq(Px(EatRadius))

\* 6. self collision; the code's index i is position i + 1 of the sequence
SampledIdx_EveryIndex(n) == FirstSample..(n - 1)
SampledIdx(n) ==
  { i \in FirstSample..(n - 1) : (i - FirstSample) % SEGMENT_SPACING = 0 }
DistHeadSq(p, hist, i) == DistSq(p, hist[i + 1])
SegJumpSq(hist, i) == DistSq(hist[i + 1], hist[i])
Hits_NoJumpCheck(p, hist, i) == DistHeadSq(p, hist, i) < Sq(Px(HitRadius))
Hits(p, hist, i) ==
  /\ DistHeadSq(p, hist, i) < Sq(Px(HitRadius))
  /\ SegJumpSq(hist, i) < Sq(Px(JumpLimit))
SelfCollision(p, hist) == \E i \in SampledIdx(Len(hist)) : Hits(p, hist, i)
FirstHit(p, hist) ==
  CHOOSE i \in SampledIdx(Len(hist)) :
    Hits(p, hist, i) /\ \A j \in SampledIdx(Len(hist)) : Hits(p, hist, j) => i <= j
\* part_000 keeps iterating after initGame(true), now over the fresh trail
HitsAfterReset(w, h, i) ==
  \E j \in SampledIdx(TAIL_LENGTH * SEGMENT_SPACING) :
     j > i /\ Hits(StartPos(w, h), InitHistory(StartPos(w, h)), j)

(* ------------------------------ renderer ------------------------------ *)
WrapJumpSq == 2500
StreakLimit == 100

\* the index pairs (p1, p2) the trail loop connects, as the code's indices
RenderPairs(b, n) ==
  IF b = "part_000"
  THEN { << i - 1, i >> : i \in 1..(n - 1) }
  ELSE { << i - SEGMENT_SPACING, i >> :
           i \in { k \in 1..(n - 1) : k % SEGMENT_SPACING = 0 } }

\* the condition under which the loop lifts the pen; a squared length in
\* pixels is Px(Px(n)) in squared tenths
Breaks(b, p1, p2) ==
  IF b = "part_000"
  THEN DistSq(p1, p2) > Px(Px(WrapJumpSq))
  ELSE DistSq(p1, p2) > Sq(Px(StreakLimit))

\* the path operations issued for the trail between beginPath and stroke
RenderTrail(b, hist) ==
  IF Len(hist) = 0 THEN { }
  ELSE { [ kind |-> "move", from |-> hist[1], to |-> hist[1] ] } \cup
       { [ kind |-> IF Breaks(b, hist[pr[1] + 1], hist[pr[2] + 1])
                    THEN "move" ELSE "line",
           from |-> hist[pr[1] + 1],
           to   |-> hist[pr[2] + 1] ] : pr \in RenderPairs(b, Len(hist)) }

(* --------------------------- storage service -------------------------- *)
\* Times are whole hours since an epoch at 0; a calendar date is a day number.
DayLen == 24
TrialDays == 7
YearLen == 8760
MonthLen == 720
trialLength == TrialDays * DayLen

\* strings that the service takes apart are sequences of characters
SECRET_CODE == << "A", "K", "2", "0", "2", "6" >>
Statuses == { "TRIAL", "ACTIVE", "EXPIRED", "LIFETIME" }
Plans == { "NONE", "MONTHLY", "YEARLY" }

\* localStorage.getItem(PROFILE_KEY) === null
NoProfile == [ stored |-> FALSE ]
\* a date field that is undefined, and lastVisit: ''
NoDate == -1
NoDay == -1

Max(a, b) == IF a > b THEN a ELSE b
\* Math.ceil(n / d) for d > 0
Ceil(n, d) == -((-n) \div d)

\* the object getUserProfile returns when nothing is stored; the fields no
\* operation of the service changes (city, notificationFrequency) are left out
DefaultProfile(t) ==
  [ streak |-> 0, longestStreak |-> 0, activityHistory |-> << >>,
    lastVisit |-> NoDay, totalDigests |-> 0, selectedPersona |-> "DEFAULT",
    theme |-> "light", subscriptionStatus |-> "TRIAL",
    subscriptionPlan |-> "NONE", trialStartDate |-> t,
    subscriptionExpiryDate |-> NoDate, completedLearningTopics |-> << >> ]

\* a profile saved by a version that knew no subscription
LegacyProfile ==
  [ DefaultProfile(NoDate) EXCEPT !.subscriptionStatus = "absent",
                                  !.subscriptionPlan = "absent" ]

\* getUserProfile at time t over the stored value: what is missing is filled
\* in on the object returned, nothing is written back
getUserProfile(stored, t) ==
  IF stored = NoProfile THEN DefaultProfile(t)
  ELSE IF stored.subscriptionStatus = "absent"
  THEN [ stored EXCEPT !.subscriptionStatus = "TRIAL",
                       !.subscriptionPlan = "NONE",
                       !.trialStartDate = t ]
  ELSE stored

getTrialDaysLeft(stored, t) ==
  LET pr == getUserProfile(stored, t)
  IN  IF pr.subscriptionStatus # "TRIAL" THEN 0
      ELSE Max(0, Ceil(trialLength - (t - pr.trialStartDate), DayLen))

\* checkSubscriptionAccess: the value returned and the profile stored after
TrialOver(pr, t) == t - pr.trialStartDate > trialLength
AccessGranted(stored, t) ==
  LET pr == getUserProfile(stored, t)
  IN  \/ pr.subscriptionStatus \in { "LIFETIME", "ACTIVE" }
      \/ pr.subscriptionStatus = "TRIAL" /\ ~TrialOver(pr, t)
AfterCheck(stored, t) ==
  LET pr == getUserProfile(stored, t)
  IN  IF pr.subscriptionStatus = "TRIAL" /\ TrialOver(pr, t)
      THEN [ pr EXCEPT !.subscriptionStatus = "EXPIRED" ]
      ELSE stored

AfterActivate(stored, plan, t) ==
  [ getUserProfile(stored, t) EXCEPT
      !.subscriptionStatus = "ACTIVE",
      !.subscriptionPlan = plan,
      !.subscriptionExpiryDate =
         t + (IF plan = "YEARLY" THEN YearLen ELSE MonthLen) ]

\* String.prototype.trim
RECURSIVE TrimStart(_)
TrimStart(code) ==
  IF code # << >> /\ Head(code) = " " THEN TrimStart(Tail(code)) ELSE code
RECURSIVE TrimEnd(_)
TrimEnd(code) ==
  IF code # << >> /\ code[Len(code)] = " "
  THEN TrimEnd(SubSeq(code, 1, Len(code) - 1)) ELSE code
Trim(code) == TrimEnd(TrimStart(code))

Redeems_NoTrim(code) == code = SECRET_CODE
Redeems(code) == Trim(code) = SECRET_CODE
AfterRedeem(stored, code, t) ==
  IF Redeems(code)
  THEN [ getUserProfile(stored, t) EXCEPT !.subscriptionStatus = "LIFETIME",
                                          !.subscriptionPlan = "NONE" ]
  ELSE stored

\* simulateTrialExpiry: a trial that began 8 days ago
AfterSimulateExpiry(stored, t) ==
  [ getUserProfile(stored, t) EXCEPT !.subscriptionStatus = "TRIAL",
                                     !.trialStartDate = t - 8 * DayLen ]

AfterSetPersona(stored, persona, t) ==
  [ getUserProfile(stored, t) EXCEPT !.selectedPersona = persona ]

AfterToggleTheme(stored, t) ==
  [ getUserProfile(stored, t) EXCEPT
      !.theme = IF @ = "dark" THEN "light" ELSE "dark" ]

\* String.prototype.toLowerCase over the letters the topics are made of
LowerChar(c) ==
  IF c = "A" THEN "a" ELSE IF c = "I" THEN "i" ELSE IF c = "G" THEN "g"
  ELSE IF c = "O" THEN "o" ELSE c
ToLowerCase(str) == [ i \in 1..Len(str) |-> LowerChar(str[i]) ]

AfterTopicComplete(stored, topic, t) ==
  LET pr == getUserProfile(stored, t)
  IN  IF \E i \in 1..Len(pr.completedLearningTopics) :
            ToLowerCase(pr.completedLearningTopics[i]) = ToLowerCase(topic)
      THEN stored
      ELSE [ pr EXCEPT !.completedLearningTopics = Append(@, topic) ]

\* the UTC calendar date of an instant, and of the instant 24 hours before
Today(t) == t \div DayLen
\* yesterday.setDate(yesterday.getDate() - 1) steps back one local day, which
\* is a day less or more an hour when the clocks changed in between; the date
\* is then read in UTC like today's
DayShifts == { DayLen - 1, DayLen, DayLen + 1 }
Yesterday(t, shift) == (t - shift) \div DayLen

\* lastVisit is '' (NoDay) or a date some call stored, never before day 0
AfterStreak(stored, t, shift) ==
  LET pr == getUserProfile(stored, t)
      newStreak == IF pr.lastVisit # NoDay /\ pr.lastVisit = Yesterday(t, shift)
                   THEN pr.streak + 1 ELSE 1
  IN  IF pr.lastVisit = Today(t) THEN stored
      ELSE [ pr EXCEPT
               !.streak = newStreak,
               !.longestStreak = Max(@, newStreak),
               !.activityHistory =
                  IF \E i \in 1..Len(@) : @[i] = Today(t)
                  THEN @ ELSE Append(@, Today(t)),
               !.lastVisit = Today(t),
               !.totalDigests = @ + 1 ]

\* digest history: findIndex, replace in place or unshift
NoIndex == -1
FindIndex(list, id) ==
  IF \E i \in 1..Len(list) : list[i].id = id
  THEN CHOOSE i \in 1..Len(list) :
         list[i].id = id /\ \A j \in 1..(i - 1) : list[j].id # id
  ELSE NoIndex
DigestsAfterSave_Unshift(list, d) == << d >> \o list
DigestsAfterSave(list, d) ==
  IF FindIndex(list, d.id) # NoIndex
  THEN [ list EXCEPT ![FindIndex(list, d.id)] = d ]
  ELSE << d >> \o list
DigestsAfterDelete(list, id) == SelectSeq(list, LAMBDA d : d.id # id)
\* the value of getDigestById; NoDigest is undefined
NoDigest == [ id |-> "undefined", text |-> "undefined" ]
getDigestById(list, id) ==
  IF FindIndex(list, id) = NoIndex THEN NoDigest ELSE list[FindIndex(list, id)]

(* --------------------------- state machine ---------------------------- *)
\* what the last handler did; aim is targetAngle as the handler found it
Note(op, played, ate, hit, spawns) ==
  [ op |-> op, played |-> played, ate |-> ate, hit |-> hit, spawns |-> spawns,
    aim |-> targetAngle ]

\* saved insights: the id is the digest id, a dash and the first ten
\* characters of the section title without their white space
IdTitleLen == 10
Substring(str, n) == SubSeq(str, 1, IF Len(str) < n THEN Len(str) ELSE n)
StripSpace(str) == SelectSeq(str, LAMBDA c : c # " ")
InsightId(sourceDigestId, title) ==
  sourceDigestId \o << "-" >> \o StripSpace(Substring(title, IdTitleLen))
HasInsight(list, id) == \E i \in 1..Len(list) : list[i].id = id
InsightsAfterSave(list, section, sourceDigestId, sourceDigestDate, t) ==
  LET id == InsightId(sourceDigestId, section.title)
  IN  IF HasInsight(list, id) THEN list
      ELSE << [ id |-> id, section |-> section, savedAt |-> t,
                sourceDigestId |-> sourceDigestId,
                sourceDigestDate |-> sourceDigestDate ] >> \o list
InsightsAfterRemove(list, id) == SelectSeq(list, LAMBDA i : i.id # id)
isInsightSaved(list, sectionTitle, sourceDigestId) ==
  HasInsight(list, InsightId(sourceDigestId, sectionTitle))

\* notes: a new note goes to the front, with the time as id
NotesAfterSave(list, text, t) ==
  << [ id |-> t, text |-> text, createdAt |-> t ] >> \o list

\* backup: what JSON.parse makes of a string is a value of some kind;
\* "invalid" is a string that does not parse, "absent" a field that is not
\* there. if (data.field) takes objects, arrays (the empty one too) and
\* non-zero numbers
Absent == [ kind |-> "absent" ]
JsonNull == [ kind |-> "null" ]
JsonObject(v) == [ kind |-> "object", value |-> v ]
JsonArray(v) == [ kind |-> "array", value |-> v ]
Truthy(v) == v.kind \in { "object", "array", "number" }
\* JSON.parse throws, or reading data.profile of null does
Throws_ParseOnly(json) == json.kind = "invalid"
Throws(json) == json.kind \in { "invalid", "null" }
\* data.field: undefined on a number or an array
Field(json, name) == IF json.kind = "document" THEN json[name] ELSE Absent
exportUserData_NoNotes(stored, tp, ins, nts, t) ==
  [ kind |-> "document",
    profile |-> JsonObject(getUserProfile(stored, t)),
    topics |-> JsonArray(tp),
    savedInsights |-> JsonArray(ins),
    notes |-> Absent ]
exportUserData(stored, tp, ins, nts, t) ==
  [ kind |-> "document",
    profile |-> JsonObject(getUserProfile(stored, t)),
    topics |-> JsonArray(tp),
    savedInsights |-> JsonArray(ins),
    notes |-> JsonArray(nts) ]
\* the value of one key after importUserData(json)
AfterImport(json, name, old) ==
  IF ~Throws(json) /\ Truthy(Field(json, name))
  THEN Field(json, name).value ELSE old

\* nothing stored, no call made, nothing exported
NoBackup == [ taken |-> FALSE ]
NoArg == << >>
NoOut == [ op |-> "none", ok |-> FALSE, n |-> 0, arg |-> NoArg ]
StoreUnused ==
  /\ profile = NoProfile
  /\ digests = << >>
  /\ now = 0
  /\ out = NoOut
  /\ firstUse = NoDate
  /\ insights = << >> /\ topics = << >> /\ notes = << >>
  /\ backup = NoBackup

\* no spawnFood call is being followed
SpawnIdle ==
  [ pc |-> "idle", attempts |-> 0, valid |-> FALSE, inside |-> 0,
    newPos |-> [ x |-> 0, y |-> 0 ] ]

\* the state after the mount effect: addEventListener, handleResize(),
\* initGame(), loop()
InitFor(sizes) ==
  /\ build \in Builds
  /\ \E s \in sizes :
       /\ width = s.w
       /\ height = s.h
       /\ pos = StartPos(s.w, s.h)
       /\ food \in spawnFood(build, s.w, s.h)
  /\ history = InitHistory(pos)
  /\ headPos = pos
  /\ angle = PI
  /\ targetAngle = PI
  /\ score = 0
  /\ isPlaying = FALSE
  /\ isPlayingRef = FALSE
  /\ surface = TRUE
  /\ reported = FALSE
  /\ spawn = SpawnIdle
  /\ StoreUnused
  /\ listening = TRUE
  /\ mounted = TRUE
  /\ framePending = TRUE
  /\ ticks = 0
  /\ events = 0
  /\ last = Note("init", FALSE, FALSE, FALSE, 1)

\* the state after the mount effect when canvasRef.current or getContext('2d')
\* is null: the effect has returned at once, the refs hold their useRef
\* defaults and width / height the window's size
InitNoSurface ==
  /\ build \in Builds
  /\ surface = FALSE
  /\ reported = FALSE
  /\ spawn = SpawnIdle
  /\ StoreUnused
  /\ listening = FALSE
  /\ mounted = TRUE
  /\ framePending = FALSE
  /\ \E s \in InitSizes : width = s.w /\ height = s.h
  /\ pos = [ x |-> 0, y |-> 0 ]
  /\ headPos = [ x |-> 0, y |-> 0 ]
  /\ food = [ x |-> 0, y |-> 0 ]
  /\ history = << >>
  /\ angle = 0
  /\ targetAngle = 0
  /\ score = 0
  /\ isPlaying = FALSE
  /\ isPlayingRef = FALSE
  /\ ticks = 0
  /\ events = 0
  /\ last = Note("init", FALSE, FALSE, FALSE, 0)

\* the start button is rendered only while the UI flag is false
startGame_Retargets ==
  /\ mounted /\ ~isPlaying
  /\ isPlaying' = TRUE
  /\ isPlayingRef' = TRUE
  /\ targetAngle' = 0
  /\ last' = Note("start", FALSE, FALSE, FALSE, 0)
  /\ UNCHANGED << setup, listening, mounted, framePending, width, height,
                  pos, angle,
                  history, food, score, headPos, ticks, events >>
startGame_StateOnly ==
  /\ mounted /\ ~isPlaying
  /\ isPlaying' = TRUE
  /\ last' = Note("start", FALSE, FALSE, FALSE, 0)
  /\ UNCHANGED << setup, listening, mounted, framePending, width, height,
                  gameVars,
                  isPlayingRef, headPos, ticks, events >>
startGame ==
  /\ mounted /\ ~isPlaying
  /\ isPlaying' = TRUE
  /\ isPlayingRef' = TRUE
  /\ last' = Note("start", FALSE, FALSE, FALSE, 0)
  /\ UNCHANGED << setup, listening, mounted, framePending, width, height,
                  gameVars,
                  headPos, ticks, events >>

\* the window's resize listener
Resize_ClampsHead(maxEvents, sizes) ==
  /\ listening /\ events < maxEvents
  /\ \E s \in sizes :
       /\ width' = s.w /\ height' = s.h
       /\ pos' = [ x |-> Min(pos.x, s.w), y |-> Min(pos.y, s.h) ]
  /\ events' = events + 1
  /\ last' = Note("resize", FALSE, FALSE, FALSE, 0)
  /\ UNCHANGED << setup, listening, mounted, framePending, angle,
                  targetAngle, history, food, score, isPlaying,
                  isPlayingRef, headPos, ticks >>
Resize(maxEvents, sizes) ==
  /\ listening /\ events < maxEvents
  /\ \E s \in sizes : width' = s.w /\ height' = s.h
  /\ events' = events + 1
  /\ last' = Note("resize", FALSE, FALSE, FALSE, 0)
  /\ UNCHANGED << setup, listening, mounted, framePending, gameVars,
                  isPlaying,
                  isPlayingRef, headPos, ticks >>

Interaction_FromBubble(maxEvents) ==
  /\ mounted /\ events < maxEvents
  /\ \E c \in Pointers :
       targetAngle' = IF isPlayingRef
                      THEN Atan2(c.y - headPos.y, c.x - headPos.x)
                      ELSE targetAngle
  /\ events' = events + 1
  /\ last' = Note("pointer", FALSE, FALSE, FALSE, 0)
  /\ UNCHANGED << setup, listening, mounted, framePending, width, height,
                  pos, angle, history, food, score, isPlaying, isPlayingRef,
                  headPos, ticks >>
Interaction_NoGuard(maxEvents) ==
  /\ mounted /\ events < maxEvents
  /\ \E c \in Pointers : targetAngle' = Atan2(c.y - pos.y, c.x - pos.x)
  /\ events' = events + 1
  /\ last' = Note("pointer", FALSE, FALSE, FALSE, 0)
  /\ UNCHANGED << setup, listening, mounted, framePending, width, height,
                  pos, angle,
                  history, food, score, isPlaying, isPlayingRef, headPos,
                  ticks >>
Interaction(maxEvents) ==
  /\ mounted /\ events < maxEvents
  /\ \E c \in Pointers :
       targetAngle' = IF isPlayingRef
                      THEN Atan2(c.y - pos.y, c.x - pos.x)
                      ELSE targetAngle
  /\ events' = events + 1
  /\ last' = Note("pointer", FALSE, FALSE, FALSE, 0)
  /\ UNCHANGED << setup, listening, mounted, framePending, width, height,
                  pos, angle,
                  history, food, score, isPlaying, isPlayingRef, headPos,
                  ticks >>

\* one frame callback while the play flag is false
IdleFrame_Moves ==
  /\ ~isPlayingRef
  /\ headPos' = pos
  /\ framePending' = TRUE
  /\ last' = Note("loop", FALSE, FALSE, FALSE, 0)
  /\ pos' = MoveHead(pos, angle)
  /\ UNCHANGED << angle, targetAngle, history, food, score, isPlaying,
                  isPlayingRef, ticks >>
IdleFrame ==
  /\ ~isPlayingRef
  /\ headPos' = pos
  /\ framePending' = TRUE
  /\ last' = Note("loop", FALSE, FALSE, FALSE, 0)
  /\ UNCHANGED << gameVars, isPlaying, isPlayingRef, ticks >>

\* scoreRef.current += 1 on a pickup
NextScore_PerGrowth(s, ate) == IF ate THEN s + GROWTH_PER_FOOD ELSE s
NextScore(s, ate) == IF ate THEN s + 1 ELSE s

\* one frame callback while the play flag is true
PlayFrame(maxTicks) ==
  /\ isPlayingRef /\ ticks < maxTicks
  /\ ticks' = ticks + 1
  /\ LET a1   == StepAngle(angle, targetAngle)
         p1   == WrapHead(MoveHead(pos, a1), width, height)
         h1   == UpdateTail(history, p1, score)
         ate  == Eats(p1, food)
         hit  == SelfCollision(p1, h1)
         more == hit /\ build = "part_000"
                     /\ HitsAfterReset(width, height, FirstHit(p1, h1))
     IN  IF hit
         THEN \* initGame(true), with spawnFood called once per initGame
              /\ pos' = StartPos(width, height)
              /\ headPos' = pos'
              /\ angle' = PI
              /\ targetAngle' = PI
              /\ history' = InitHistory(pos')
              /\ score' = 0
              /\ food' \in spawnFood(build, width, height)
              /\ isPlaying' = FALSE
              /\ isPlayingRef' = FALSE
              \* components/SnakeGame.tsx returns before requestAnimationFrame
              /\ framePending' = (build = "part_000")
              /\ last' = Note("loop", TRUE, ate, TRUE,
                              (IF ate THEN 1 ELSE 0) + (IF more THEN 2 ELSE 1))
         ELSE /\ pos' = p1
              /\ angle' = a1
              /\ history' = h1
              /\ score' = NextScore(score, ate)
              /\ food' \in IF ate THEN spawnFood(build, width, height)
                                  ELSE { food }
              /\ framePending' = TRUE
              /\ last' = Note("loop", TRUE, ate, FALSE, IF ate THEN 1 ELSE 0)
              /\ UNCHANGED << targetAngle, isPlaying, isPlayingRef, headPos >>

\* the frame callback runs when the scheduler holds a request for it
Frame(maxTicks) ==
  /\ framePending
  /\ IdleFrame \/ PlayFrame(maxTicks)
  /\ UNCHANGED << setup, listening, mounted, width, height, events >>

\* spawnFood followed draw by draw.  spawn.inside counts the draws that fell
\* inside the forbidden rectangle.
spawnVars == << listening, mounted, framePending, width, height, pos, angle,
                targetAngle, history, score, isPlaying, isPlayingRef,
                headPos, ticks, events, last >>

\* the call: the locals are initialised
SpawnCall ==
  /\ surface /\ spawn.pc \in { "idle", "done" }
  /\ spawn' = [ SpawnIdle EXCEPT !.pc = "loop" ]
  /\ UNCHANGED << build, surface, reported, store, food, spawnVars >>

\* part_000: one iteration of while (!valid && attempts < 100)
SpawnDraw ==
  /\ build = "part_000" /\ spawn.pc = "loop"
  /\ ~spawn.valid /\ spawn.attempts < MaxAttempts
  /\ \E d \in Draws :
       LET c == Candidate(d, width, height)
       IN  spawn' = [ spawn EXCEPT
                        !.newPos = c,
                        !.valid = ~InForbidden(c, width, height),
                        !.inside = IF InForbidden(c, width, height)
                                   THEN @ + 1 ELSE @,
                        !.attempts = @ + 1 ]
  /\ UNCHANGED << build, surface, reported, store, food, spawnVars >>

\* part_000: the loop is left, the fallback applies, food.current is set
SpawnReturn ==
  /\ build = "part_000" /\ spawn.pc = "loop"
  /\ spawn.valid \/ spawn.attempts >= MaxAttempts
  /\ LET p == IF spawn.valid THEN spawn.newPos ELSE Fallback
     IN  /\ food' = p
         /\ spawn' = [ spawn EXCEPT !.newPos = p, !.pc = "done" ]
  /\ UNCHANGED << build, surface, reported, store, spawnVars >>

\* components/SnakeGame.tsx: one draw, taken as it comes
SpawnOnce ==
  /\ build = "components" /\ spawn.pc = "loop"
  /\ \E d \in Draws :
       LET c == Candidate(d, width, height)
       IN  /\ food' = c
           /\ spawn' = [ spawn EXCEPT
                           !.newPos = c,
                           !.inside = IF InForbidden(c, width, height)
                                      THEN 1 ELSE 0,
                           !.attempts = 1,
                           !.pc = "done" ]
  /\ UNCHANGED << build, surface, reported, store, spawnVars >>

\* React unmounts the component: its handlers go with the DOM, and the
\* cleanup the effect returned (none when it returned early) cancels the
\* pending frame and removes the resize listener
Unmount_NoCancel ==
  /\ mounted
  /\ mounted' = FALSE
  /\ listening' = FALSE
  /\ last' = Note("unmount", FALSE, FALSE, FALSE, 0)
  /\ UNCHANGED << setup, framePending, width, height, gameVars, isPlaying,
                  isPlayingRef, headPos, ticks, events >>
Unmount ==
  /\ mounted
  /\ mounted' = FALSE
  /\ framePending' = FALSE
  /\ listening' = FALSE
  /\ last' = Note("unmount", FALSE, FALSE, FALSE, 0)
  /\ UNCHANGED << setup, width, height, gameVars, isPlaying, isPlayingRef,
                  headPos, ticks, events >>

(* ---------------------- storage service: calls ------------------------ *)
\* inputs of the calls
Waits == { DayLen \div 2, trialLength }
Codes == { SECRET_CODE, << " " >> \o SECRET_CODE \o << " " >>,
           << "a", "k", "2", "0", "2", "6" >>, << >> }
Personas == { "DEFAULT", "EXPERT" }
Topics == { << "a", "i" >>, << "A", "I" >> }
DigestIds == { "d1", "d2", "d3" }
DigestTexts == { "first", "second" }
\* section titles: two that differ only after the tenth character, one short
Titles == { << "I", "n", "t", "r", "o", " ", "t", "o", " ", "A", "I" >>,
            << "I", "n", "t", "r", "o", " ", "t", "o", " ", "A", "R" >>,
            << "N", "e", "w", "s" >> }
SourceDigests == { << "d", "1" >>, << "d", "2" >> }
NoteTexts == { "idea" }
TopicLists == { << >>, << "ai", "ml" >> }
\* strings handed to importUserData: one that is no JSON, the JSON values
\* null, 5 and [], and objects whose four fields are each missing, null or
\* a value of the right kind
NotJson == [ kind |-> "invalid" ]
JsonNumber == [ kind |-> "number" ]
ProfileFields ==
  { Absent, JsonNull, JsonObject([ DefaultProfile(0) EXCEPT !.theme = "dark" ]) }
TopicFields == { Absent, JsonNull, JsonArray(<< "ai" >>) }
InsightFields == { Absent, JsonNull, JsonArray(<< >>) }
NoteFields ==
  { Absent, JsonNull,
    JsonArray(<< [ id |-> 0, text |-> "kept", createdAt |-> 0 ] >>) }
ImportInputs ==
  { NotJson, JsonNull, JsonNumber, JsonArray(<< >>) }
    \cup { [ kind |-> "document", profile |-> p, topics |-> t,
             savedInsights |-> i, notes |-> n ] :
             p \in ProfileFields, t \in TopicFields, i \in InsightFields,
             n \in NoteFields }
InsightIds == { InsightId(d, t) : d \in SourceDigests, t \in Titles }

\* the game component as it is before it is ever mounted
NotMounted ==
  /\ build = "part_000"
  /\ surface = FALSE
  /\ reported = FALSE
  /\ spawn = SpawnIdle
  /\ listening = FALSE
  /\ mounted = FALSE
  /\ framePending = FALSE
  /\ width = 0 /\ height = 0
  /\ pos = [ x |-> 0, y |-> 0 ]
  /\ headPos = [ x |-> 0, y |-> 0 ]
  /\ food = [ x |-> 0, y |-> 0 ]
  /\ history = << >>
  /\ angle = 0
  /\ targetAngle = 0
  /\ score = 0
  /\ isPlaying = FALSE
  /\ isPlayingRef = FALSE
  /\ ticks = 0
  /\ events = 0
  /\ last = Note("none", FALSE, FALSE, FALSE, 0)

\* a browser that holds nothing, the profile of an old version, or a profile
\* saved at time 0 by a first setPersona or toggleTheme
InitStore ==
  /\ NotMounted
  /\ profile \in { NoProfile, LegacyProfile, DefaultProfile(0) }
  /\ digests = << >>
  /\ now = 0
  /\ out = NoOut
  /\ firstUse = NoDate
  /\ insights = << >> /\ topics = << >> /\ notes = << >>
  /\ backup = NoBackup

\* time passes between two calls
Advance(maxDays) ==
  /\ \E w \in Waits : now + w <= maxDays * DayLen /\ now' = now + w
  /\ out' = [ op |-> "wait", ok |-> FALSE, n |-> 0, arg |-> NoArg ]
  /\ UNCHANGED << game, shelf, backup, profile, digests, firstUse >>

\* firstUse keeps the time of the first check that found no subscription stored
Unsaved(stored) == stored = NoProfile \/ stored.subscriptionStatus = "absent"
checkSubscriptionAccess_NoExpiry ==
  /\ out' = [ op |-> "check", ok |-> AccessGranted(profile, now), n |-> 0, arg |-> NoArg ]
  /\ firstUse' = IF firstUse = NoDate /\ Unsaved(profile) THEN now ELSE firstUse
  /\ UNCHANGED << game, shelf, backup, profile, digests, now >>
checkSubscriptionAccess ==
  /\ profile' = AfterCheck(profile, now)
  /\ out' = [ op |-> "check", ok |-> AccessGranted(profile, now), n |-> 0, arg |-> NoArg ]
  /\ firstUse' = IF firstUse = NoDate /\ Unsaved(profile) THEN now ELSE firstUse
  /\ UNCHANGED << game, shelf, backup, digests, now >>

\* a call of getTrialDaysLeft
ReadTrialDaysLeft ==
  /\ out' = [ op |-> "daysLeft", ok |-> FALSE,
              n |-> getTrialDaysLeft(profile, now), arg |-> NoArg ]
  /\ UNCHANGED << game, shelf, backup, profile, digests, now, firstUse >>

\* a call of getUserProfile; out.n is the trial start of the object returned
ReadUserProfile ==
  /\ out' = [ op |-> "profile", ok |-> FALSE,
              n |-> getUserProfile(profile, now).trialStartDate, arg |-> NoArg ]
  /\ UNCHANGED << game, shelf, backup, profile, digests, now, firstUse >>

activateSubscription ==
  /\ \E plan \in Plans \ { "NONE" } :
       profile' = AfterActivate(profile, plan, now)
  /\ out' = [ op |-> "activate", ok |-> FALSE, n |-> 0, arg |-> NoArg ]
  /\ UNCHANGED << game, shelf, backup, digests, now, firstUse >>

redeemSecretCode ==
  /\ \E code \in Codes :
       /\ profile' = AfterRedeem(profile, code, now)
       /\ out' = [ op |-> "redeem", ok |-> Redeems(code), n |-> 0,
                   arg |-> code ]
  /\ UNCHANGED << game, shelf, backup, digests, now, firstUse >>

simulateTrialExpiry ==
  /\ profile' = AfterSimulateExpiry(profile, now)
  /\ out' = [ op |-> "simulateExpiry", ok |-> FALSE, n |-> 0, arg |-> NoArg ]
  /\ UNCHANGED << game, shelf, backup, digests, now, firstUse >>

setPersona ==
  /\ \E persona \in Personas : profile' = AfterSetPersona(profile, persona, now)
  /\ out' = [ op |-> "setPersona", ok |-> FALSE, n |-> 0, arg |-> NoArg ]
  /\ UNCHANGED << game, shelf, backup, digests, now, firstUse >>

toggleTheme ==
  /\ profile' = AfterToggleTheme(profile, now)
  /\ out' = [ op |-> "toggleTheme", ok |-> profile'.theme = "dark", n |-> 0, arg |-> NoArg ]
  /\ UNCHANGED << game, shelf, backup, digests, now, firstUse >>

markLearningTopicComplete ==
  /\ \E topic \in Topics : profile' = AfterTopicComplete(profile, topic, now)
  /\ out' = [ op |-> "topic", ok |-> FALSE, n |-> 0, arg |-> NoArg ]
  /\ UNCHANGED << game, shelf, backup, digests, now, firstUse >>

updateStreak ==
  /\ \E shift \in DayShifts : profile' = AfterStreak(profile, now, shift)
  /\ out' = [ op |-> "updateStreak", ok |-> FALSE, n |-> 0, arg |-> NoArg ]
  /\ UNCHANGED << game, shelf, backup, digests, now, firstUse >>

\* localStorage.clear() and a reload
hardResetApp ==
  /\ profile' = NoProfile
  /\ digests' = << >>
  /\ firstUse' = NoDate
  /\ insights' = << >> /\ topics' = << >> /\ notes' = << >>
  /\ out' = [ op |-> "hardReset", ok |-> FALSE, n |-> 0, arg |-> NoArg ]
  /\ UNCHANGED << game, now, backup >>

\* saveDigest; out.ok tells whether the id was new, out.n where it went
SaveDigestOf(ids, texts) ==
  /\ \E id \in ids, text \in texts, shift \in DayShifts :
       LET d == [ id |-> id, text |-> text ]
           fresh == FindIndex(digests, id) = NoIndex
       IN  /\ digests' = DigestsAfterSave(digests, d)
           /\ profile' = IF fresh THEN AfterStreak(profile, now, shift)
                                   ELSE profile
           /\ out' = [ op |-> "saveDigest", ok |-> fresh,
                       n |-> FindIndex(digests', id), arg |-> << d >> ]
  /\ UNCHANGED << game, shelf, backup, now, firstUse >>
saveDigest == SaveDigestOf(DigestIds, DigestTexts)

deleteDigest ==
  /\ \E id \in DigestIds :
       /\ digests' = DigestsAfterDelete(digests, id)
       /\ out' = [ op |-> "deleteDigest", ok |-> FALSE, n |-> 0, arg |-> NoArg ]
  /\ UNCHANGED << game, shelf, backup, profile, now, firstUse >>

(* --------------------------- specifications --------------------------- *)
Init == InitFor(InitSizes)
handleResize == Resize(MaxEvents, ResizeSizes)
handleInteraction == Interaction(MaxEvents)
loop == Frame(MaxTicks)
Next == startGame \/ handleResize \/ handleInteraction \/ loop
Spec == Init /\ [][Next]_vars

\* the wide container, no input events
InitGrow == InitFor({ SizeB })
loopGrow == Frame(GrowTicks)
NextGrow == startGame \/ loopGrow
SpecGrow == InitGrow /\ [][NextGrow]_vars

\* the narrow and the collapsed container, resize events only
InitWrap == InitFor({ SizeA, SizeZ })
handleResizeWrap == Resize(WrapEvents, ResizeSizes)
loopWrap == Frame(WrapTicks)
NextWrap == startGame \/ handleResizeWrap \/ loopWrap
SpecWrap == InitWrap /\ [][NextWrap]_vars

\* the wide container, no input events, a long run
InitLong == InitFor({ SizeB })
loopLong == Frame(LongTicks)
NextLong == startGame \/ loopLong
SpecLong == InitLong /\ [][NextLong]_vars

\* the whole life of the component, from either outcome of the mount effect
InitLife == InitFor(InitSizes) \/ InitNoSurface
handleResizeLife == Resize(LifeEvents, ResizeSizes)
handleInteractionLife == Interaction(LifeEvents)
loopLife == Frame(LifeTicks)
NextLife ==
  startGame \/ handleResizeLife \/ handleInteractionLife \/ loopLife \/ Unmount
SpecLife == InitLife /\ [][NextLife]_vars

\* calls of spawnFood in every container size
InitSpawn == InitFor(ResizeSizes)
NextSpawn == SpawnCall \/ SpawnDraw \/ SpawnReturn \/ SpawnOnce
SpecSpawn == InitSpawn /\ [][NextSpawn]_vars

\* the subscription and profile calls of the storage service
AdvanceSub == Advance(SubDays)
NextSub ==
  \/ AdvanceSub \/ checkSubscriptionAccess \/ ReadTrialDaysLeft
  \/ ReadUserProfile \/ activateSubscription \/ redeemSecretCode
  \/ simulateTrialExpiry \/ hardResetApp
SpecSub == InitStore /\ [][NextSub]_vars

\* the secret code among the calls that rewrite the profile
AdvanceCode == Advance(CodeDays)
NextCode ==
  \/ AdvanceCode \/ checkSubscriptionAccess \/ activateSubscription
  \/ redeemSecretCode \/ setPersona \/ toggleTheme
  \/ markLearningTopicComplete \/ updateStreak
SpecCode == InitStore /\ [][NextCode]_vars

\* reads and access checks only
AdvanceTrial == Advance(TrialSpan)
NextTrial ==
  AdvanceTrial \/ checkSubscriptionAccess \/ ReadTrialDaysLeft \/ ReadUserProfile
SpecTrial == InitStore /\ [][NextTrial]_vars

\* saveInsight of a section of a digest; out.ok tells whether it was stored
SaveInsightOf(titles, sources) ==
  /\ \E title \in titles, sourceDigestId \in sources :
       LET section == [ title |-> title ]
       IN  /\ insights' = InsightsAfterSave(insights, section, sourceDigestId,
                                            Today(0), now)
           /\ out' = [ op |-> "saveInsight", ok |-> insights' # insights,
                       n |-> 0, arg |-> << section, sourceDigestId >> ]
  /\ UNCHANGED << game, profile, digests, now, firstUse, topics, notes,
                 backup >>
saveInsight == SaveInsightOf(Titles, SourceDigests)

removeInsight ==
  /\ \E id \in InsightIds :
       /\ insights' = InsightsAfterRemove(insights, id)
       /\ out' = [ op |-> "removeInsight", ok |-> FALSE, n |-> 0,
                   arg |-> << id >> ]
  /\ UNCHANGED << game, profile, digests, now, firstUse, topics, notes,
                 backup >>

saveNote ==
  /\ Len(notes) < MaxNotes
  /\ \E text \in NoteTexts : notes' = NotesAfterSave(notes, text, now)
  /\ out' = [ op |-> "saveNote", ok |-> FALSE, n |-> 0, arg |-> NoArg ]
  /\ UNCHANGED << game, profile, digests, now, firstUse, insights, topics,
                 backup >>

saveSelectedTopicIds ==
  /\ \E ids \in TopicLists : topics' = ids
  /\ out' = [ op |-> "saveTopics", ok |-> FALSE, n |-> 0, arg |-> NoArg ]
  /\ UNCHANGED << game, profile, digests, now, firstUse, insights, notes,
                 backup >>

\* exportUserData; the user keeps the string, and seen is what the four
\* getters return at that time
ExportUserData ==
  /\ backup' = [ taken |-> TRUE,
                 json |-> exportUserData(profile, topics, insights, notes, now),
                 seen |-> << getUserProfile(profile, now), topics, insights,
                             notes >> ]
  /\ out' = [ op |-> "export", ok |-> FALSE, n |-> 0, arg |-> NoArg ]
  /\ UNCHANGED << game, shelf, profile, digests, now, firstUse >>

ImportOf(inputs) ==
  /\ \E json \in inputs :
       /\ profile' = AfterImport(json, "profile", profile)
       /\ topics' = AfterImport(json, "topics", topics)
       /\ insights' = AfterImport(json, "savedInsights", insights)
       /\ notes' = AfterImport(json, "notes", notes)
       /\ out' = [ op |-> "import", ok |-> ~Throws(json), n |-> 0,
                   arg |-> << json >> ]
  /\ UNCHANGED << game, digests, now, firstUse, backup >>
\* the user hands back the last export
ImportBackup == backup.taken /\ ImportOf({ backup.json })
importUserData == ImportOf(ImportInputs)

\* export, clear, import, a day passing in between
AdvanceBackup ==
  /\ now + DayLen <= BackupDays * DayLen /\ now' = now + DayLen
  /\ out' = [ op |-> "wait", ok |-> FALSE, n |-> 0, arg |-> NoArg ]
  /\ UNCHANGED << game, shelf, backup, profile, digests, firstUse >>
SaveOneDigest == SaveDigestOf({ "d1" }, { "first" })
SaveOneInsight == SaveInsightOf({ << "N", "e", "w", "s" >> }, { << "d", "1" >> })
NextBackup ==
  \/ AdvanceBackup \/ saveNote \/ saveSelectedTopicIds
  \/ SaveOneDigest \/ SaveOneInsight \/ ExportUserData \/ hardResetApp
  \/ ImportBackup
SpecBackup == InitStore /\ [][NextBackup]_vars

\* import of any string into a store that holds something
NextImport ==
  SaveOneDigest \/ saveNote \/ saveSelectedTopicIds \/ importUserData
SpecImport == InitStore /\ [][NextImport]_vars

\* the saved insights
AdvanceInsight == Advance(InsightDays)
NextInsight == AdvanceInsight \/ saveInsight \/ removeInsight
SpecInsight == InitStore /\ [][NextInsight]_vars

\* the streak hour by hour, so that calls fall on either side of midnight
AdvanceStreak ==
  /\ \E w \in { 1, DayLen - 1 } :
       now + w <= StreakDays * DayLen /\ now' = now + w
  /\ out' = [ op |-> "wait", ok |-> FALSE, n |-> 0, arg |-> NoArg ]
  /\ UNCHANGED << game, shelf, backup, profile, digests, firstUse >>
NextStreak == AdvanceStreak \/ updateStreak
SpecStreak == InitStore /\ [][NextStreak]_vars

\* the digest history
AdvanceDigest == Advance(DigestDays)
NextDigest == AdvanceDigest \/ saveDigest \/ deleteDigest
SpecDigest == InitStore /\ [][NextDigest]_vars

(* ------------------------------- claims ------------------------------- *)
\* the last step was a frame callback that ran the playing branch
Played == last.op = "loop" /\ last.played
\* the head as the playing branch of the next frame moves and wraps it
NextHead == WrapHead(MoveHead(pos, StepAngle(angle, targetAngle)), width, height)
NextTrail == UpdateTail(history, NextHead, score)
StraightTrail(p) ==
  /\ Len(history) = 80
  /\ \A i \in 1..80 : history[i] = [ x |-> p.x + (i - 1) * 25, y |-> p.y ]

\* C1: in every reachable state the trail holds at most (20 + score*10) * 4
\* points.
C1_TrailCapped == Len(history) <= (20 + score * 10) * 4
\* a playing tick that dropped the oldest point to stay at the cap
C1_Witness ==
  /\ Played /\ ~last.hit /\ ~last.ate
  /\ Len(history) = (20 + score * 10) * 4
  /\ history[1] = pos /\ history[2] # pos

\* C2 as stated: a tick that detects a self-collision ends with the head at
\* (width-50, height-30), angle = targetAngle = pi, score 0, the straight
\* 80-point trail and both play flags false.
C2_ResetToCorner ==
  (Played /\ last.hit) =>
     /\ pos = [ x |-> width - Px(50), y |-> height - Px(30) ]
     /\ angle = PI /\ targetAngle = PI /\ score = 0
     /\ StraightTrail(pos)
     /\ ~isPlaying /\ ~isPlayingRef
\* C2 amended: the head is at (width-50, height-30) where the dimension is
\* positive and at 300 resp. 500 where it is zero; the rest as stated.
C2_ResetToStart ==
  (Played /\ last.hit) =>
     /\ pos.x = (IF width > 0 THEN width - Px(50) ELSE Px(300))
     /\ pos.y = (IF height > 0 THEN height - Px(30) ELSE Px(500))
     /\ angle = PI /\ targetAngle = PI /\ score = 0
     /\ StraightTrail(pos)
     /\ ~isPlaying /\ ~isPlayingRef
\* a collision reset in a container of positive size, after several ticks
C2_Witness == Played /\ last.hit /\ width > 0 /\ ticks > 1

\* C3: every executed frame callback schedules one further frame callback
\* while the component is mounted, the frame of a collision reset included.
C3_Reschedules == (mounted /\ last.op = "loop") => framePending

\* C4 as stated: in a playing tick the score goes up by exactly 1 and the
\* spawner runs exactly once iff the moved head is strictly closer than 15
\* to the food; at 15 or more, score and food are unchanged unless the tick
\* ends in a collision reset.
C4_PickupIff ==
  [][ (last'.op = "loop" /\ last'.played) =>
        /\ (DistSq(NextHead, food) < Sq(Px(15)))
             <=> (score' = score + 1 /\ last'.spawns = 1)
        /\ (DistSq(NextHead, food) >= Sq(Px(15)) /\ ~last'.hit)
             => (score' = score /\ food' = food) ]_vars
\* C4 amended: the equivalence holds in the playing ticks that do not end
\* in a collision reset; a tick that ends in a reset leaves the score 0 and
\* has run the spawner once for the reset, and once more when the head was
\* closer than 15 to the food.
C4_PickupIffNoReset ==
  [][ (last'.op = "loop" /\ last'.played) =>
        IF last'.hit
        THEN /\ score' = 0
             /\ last'.spawns =
                  (IF DistSq(NextHead, food) < Sq(Px(15)) THEN 2 ELSE 1)
        ELSE /\ (DistSq(NextHead, food) < Sq(Px(15)))
                  <=> (score' = score + 1 /\ last'.spawns = 1)
             /\ (DistSq(NextHead, food) >= Sq(Px(15)))
                  => (score' = score /\ food' = food /\ last'.spawns = 0) ]_vars
\* a pickup in a tick without reset, with the head off the food
C4_Witness ==
  /\ Played /\ last.ate /\ ~last.hit
  /\ score >= 1 /\ last.spawns = 1

\* C5: in every reachable state the food lies in [20, width-20] x
\* [20, height-20] and outside the centred 340 x 250 rectangle.
C5_FoodPlaced ==
  /\ food.x >= Px(20) /\ food.x <= width - Px(20)
  /\ food.y >= Px(20) /\ food.y <= height - Px(20)
  /\ ~ ( /\ 2 * food.x > width - Px(340) /\ 2 * food.x < width + Px(340)
         /\ 2 * food.y > height - Px(250) /\ 2 * food.y < height + Px(250) )

\* C6: a sampled trail point more than 50 away from its predecessor never
\* triggers a collision reset: when every sampled point closer than 5 to the
\* moved head is such a point, the tick does not reset.
C6_JumpNeverCollides ==
  [][ (last'.op = "loop" /\ last'.played) =>
        ( ( \A i \in SampledIdx(Len(NextTrail)) :
              DistSq(NextHead, NextTrail[i + 1]) < Sq(Px(5))
                => DistSq(NextTrail[i + 1], NextTrail[i]) > Sq(Px(50)) )
          => ~last'.hit ) ]_vars
\* after a playing tick without reset the head is closer than 5 to a sampled
\* point whose predecessor is more than 50 away
C6_Witness ==
  /\ Played /\ ~last.hit
  /\ \E i \in SampledIdx(Len(history)) :
       /\ DistSq(pos, history[i + 1]) < Sq(Px(5))
       /\ DistSq(history[i + 1], history[i]) > Sq(Px(50))

\* C7: in a playing tick (without reset) a moved coordinate above its bound
\* becomes 0, one below 0 becomes the bound, and one inside is kept.
C7_Wrap ==
  [][ (last'.op = "loop" /\ last'.played /\ ~last'.hit) =>
        LET m == MoveHead(pos, angle')
        IN  /\ pos'.x = (IF m.x > width THEN 0
                         ELSE IF m.x < 0 THEN width ELSE m.x)
            /\ pos'.y = (IF m.y > height THEN 0
                         ELSE IF m.y < 0 THEN height ELSE m.y) ]_vars
\* the head stepped past x = 0 and sits on the right edge
C7_Witness ==
  /\ Played /\ ~last.hit
  /\ width > Px(50) /\ pos.x = width
  /\ history[2].x < SPEED

\* the difference targetAngle - angle brought into (-pi, pi]
ShortArc == ((targetAngle - angle + 179) % 360) - 179

\* C8 as stated: after the heading update of a playing tick the angle lies
\* strictly between the previous angle and the target along the shorter arc.
C8_StrictlyBetween ==
  [][ (last'.op = "loop" /\ last'.played /\ ~last'.hit) =>
        \/ ShortArc > 0 /\ angle < angle' /\ angle' < angle + ShortArc
        \/ ShortArc < 0 /\ angle + ShortArc < angle' /\ angle' < angle ]_vars
\* C8 amended: the angle stays where it is when the normalized difference
\* is 0, and otherwise moves by 0.15 times that difference (up to the
\* rounding of the stored value), on the side of the target and never
\* reaching or passing it.
C8_EasesWithoutOvershoot ==
  [][ (last'.op = "loop" /\ last'.played /\ ~last'.hit) =>
        /\ ShortArc = 0 => angle' = angle
        /\ ShortArc > 0 => (angle <= angle' /\ angle' < angle + ShortArc)
        /\ ShortArc < 0 => (angle + ShortArc < angle' /\ angle' <= angle)
        /\ Abs(100 * (angle' - angle) - 15 * ShortArc) < 100 ]_vars
\* a playing tick has turned the head off the start heading
C8_Witness == Played /\ ~last.hit /\ angle # PI /\ angle # targetAngle

\* C9 as stated: once 10 pickups have happened without a reset the trail
\* holds (20 + 10*10) * 4 = 480 points.
C9_TenPickups480 == score = 10 => Len(history) = 480
\* C9 amended: after 10 pickups the trail holds at least 80 and at most 480
\* points; it gains at most one point per playing tick and none in the
\* first, so it holds at most 79 + (playing ticks so far) points and 480
\* only after further ticks.
C9_TenPickupsGrowing ==
  score = 10 =>
     /\ Len(history) >= 80
     /\ Len(history) <= 480
     /\ Len(history) <= 79 + ticks
\* the tenth pickup has just happened
C9_Witness == Played /\ last.ate /\ ~last.hit /\ score = 10

\* C10 as stated: outside the state right after a reset the trail is never
\* shorter than (20 + score*10) * 4.
C10_NeverBelowCap ==
  ~(Played /\ last.hit) => Len(history) >= (20 + score * 10) * 4
\* C10 amended: the trail never holds fewer than 80 points; a playing tick
\* without reset takes it to min(length + 1, cap of the score before the
\* tick), so it never shrinks between resets and stays below the cap for a
\* while after each pickup; no other step changes its length.
C10_GrowsToCap ==
  [][ /\ Len(history') >= 80
      /\ (last'.op = "loop" /\ last'.played /\ ~last'.hit)
           => Len(history') = Min(Len(history) + 1, (20 + score * 10) * 4)
      /\ ~(last'.op = "loop" /\ last'.played)
           => Len(history') = Len(history) ]_vars
\* the trail has grown after a pickup and is still below the cap
C10_Witness ==
  /\ Played /\ ~last.hit /\ score > 0
  /\ Len(history) > 80
  /\ Len(history) < (20 + score * 10) * 4

\* C11: a frame callback that runs while the play flag is false leaves head,
\* angle, targetAngle, trail, score and food as they were.
C11_IdleTickFrozen ==
  [][ (last'.op = "loop" /\ ~last'.played) =>
        /\ pos' = pos /\ angle' = angle /\ targetAngle' = targetAngle
        /\ history' = history /\ score' = score /\ food' = food ]_vars
\* an idle frame of a game that has been played and was reset
C11_Witness == last.op = "loop" /\ ~last.played /\ ~isPlayingRef /\ ticks > 0

\* C12: a pointer-down or touch-start received while the game is idle changes
\* neither targetAngle nor angle, head, trail, score, food or the play flag.
C12_IdlePointerIgnored ==
  [][ (last'.op = "pointer" /\ ~isPlayingRef) =>
        /\ targetAngle' = targetAngle /\ angle' = angle /\ pos' = pos
        /\ history' = history /\ score' = score /\ food' = food
        /\ isPlaying' = isPlaying /\ isPlayingRef' = isPlayingRef ]_vars
\* a pointer event has just been handled while the game was idle
C12_Witness == last.op = "pointer" /\ ~isPlayingRef /\ ~isPlaying

\* C13 as stated: targetAngle is changed only by the pointer handler, never
\* by a tick, pickup, collision reset, initialization, resize or start.
C13_OnlyInputAdapter ==
  [][ targetAngle' # targetAngle => last'.op = "pointer" ]_vars
\* C13: targetAngle is changed only by the pointer handler while playing and
\* by initGame, which the collision reset runs and which sets it to pi.
C13_InputAdapterOrReset ==
  [][ targetAngle' # targetAngle =>
        \/ last'.op = "pointer" /\ isPlayingRef
        \/ last'.op = "loop" /\ last'.hit /\ targetAngle' = PI ]_vars
\* a collision reset has just overwritten a target the player had set
C13_Witness ==
  last.op = "loop" /\ last.hit /\ last.aim # PI /\ targetAngle = PI

\* C14: the score is a natural number; from one state to the next it stays,
\* goes up by exactly one on a food pickup, or is set to 0 by a reset.
C14_ScoreSteps ==
  [][ /\ score \in Nat /\ score' \in Nat
      /\ \/ score' = score
         \/ score' = score + 1 /\ last'.op = "loop" /\ last'.ate /\ ~last'.hit
         \/ score' = 0 /\ last'.op = "loop" /\ last'.hit ]_vars
\* the second pickup in a row has just been counted
C14_Witness == Played /\ last.ate /\ ~last.hit /\ score >= 2

\* C15: the play flag goes from false to true only by the start action and
\* from true to false only by a collision reset, and the UI flag and the
\* loop's flag are equal in every state.
C15_PlayFlag ==
  [][ /\ (~isPlayingRef /\ isPlayingRef') => last'.op = "start"
      /\ (isPlayingRef /\ ~isPlayingRef') => last'.op = "loop" /\ last'.hit
      /\ isPlaying = isPlayingRef
      /\ isPlaying' = isPlayingRef' ]_vars
\* a collision has just switched both flags off
C15_Witness ==
  last.op = "loop" /\ last.played /\ last.hit /\ ~isPlaying /\ ~isPlayingRef

\* C19: after every tick and every reset the front of the trail is the head;
\* a playing tick without collision yields the new head followed by the
\* previous trail in order, shortened at the back by at most one point, so
\* no stored point is altered by the movement.
C19_TrailFront ==
  [][ last'.op = "loop" =>
        /\ history'[1] = pos'
        /\ (last'.played /\ ~last'.hit) =>
             /\ Len(history') \in { Len(history), Len(history) + 1 }
             /\ history' = << pos' >> \o SubSeq(history, 1, Len(history') - 1)
    ]_vars
\* a playing tick has just pushed a moved head onto a trail that is growing
C19_Witness ==
  /\ Played /\ ~last.hit
  /\ Len(history) > TAIL_LENGTH * SEGMENT_SPACING
  /\ history[1] = pos /\ history[2] # pos

\* the frame callback has just drawn the present state: every frame renders,
\* but for the collision frame of components/SnakeGame.tsx, which returns
Rendered ==
  \/ last.op = "init"
  \/ last.op = "loop" /\ ~(last.hit /\ build = "components")

\* C20: the renderer issues a pen move, never a line, between two trail
\* points whose squared distance exceeds 2500; rendering is a function of the
\* state and changes none of it.
C20_NoStreak ==
  Rendered =>
    \A o \in RenderTrail(build, history) :
      DistSq(o.from, o.to) > Px(Px(WrapJumpSq)) => o.kind = "move"

\* C16: once the component is unmounted no frame callback and no resize
\* handling of this instance runs any more: the pending frame is cancelled
\* and the listener is removed, whenever the unmount comes.
C16_NothingAfterUnmount ==
  [][ /\ ~mounted' => ~framePending' /\ ~listening'
      /\ ~mounted => last'.op \notin { "loop", "resize" } ]_vars
\* unmounted in the middle of a game, while a frame was requested
C16_Witness ==
  /\ ~mounted /\ last.op = "unmount" /\ surface
  /\ isPlayingRef /\ ticks > 0 /\ ~framePending /\ ~listening

\* C17: when the canvas or its 2D context is unavailable at the mount, the
\* loop is never started, no resize listener is registered, the game state is
\* not initialized, and the failure is reported to the caller.
C17_FailureReported ==
  ~surface =>
    /\ ~framePending /\ ticks = 0
    /\ ~listening
    /\ history = << >> /\ score = 0
    /\ reported

\* C18: spawnFood returns after at most 100 draws; it returns the first
\* drawn point that is not inside the forbidden rectangle, and the corner
\* point (20, 20) exactly when all 100 draws fell inside.
C18_FirstFreeDraw ==
  spawn.pc = "done" =>
    /\ spawn.attempts <= MaxAttempts
    /\ IF spawn.inside = MaxAttempts
       THEN food = Fallback
       ELSE /\ food = spawn.newPos
            /\ ~InForbidden(food, width, height)
            /\ spawn.inside = spawn.attempts - 1
            /\ food # Fallback

\* C21: while playing, a pointer event sets targetAngle to atan2 from the head
\* as it stands at the event to the pointer and changes nothing else; the
\* next tick eases toward the target stored last, earlier ones are gone.
C21_LastPointerWins ==
  [][ /\ (last'.op = "pointer" /\ isPlayingRef) =>
           /\ \E c \in Pointers :
                targetAngle' = Atan2(c.y - pos.y, c.x - pos.x)
           /\ pos' = pos /\ angle' = angle /\ history' = history
           /\ score' = score /\ food' = food
           /\ isPlaying' = isPlaying /\ isPlayingRef' = isPlayingRef
      /\ (last'.op = "loop" /\ last'.played /\ ~last'.hit) =>
           angle' = StepAngle(angle, targetAngle) ]_vars
\* a second pointer event, from the same head position, has just replaced
\* the target of the first
C21_Witness ==
  /\ last.op = "pointer" /\ isPlayingRef /\ ticks > 0
  /\ last.aim # targetAngle
  /\ \E c, d \in Pointers :
       /\ c # d
       /\ last.aim = Atan2(c.y - pos.y, c.x - pos.x)
       /\ targetAngle = Atan2(d.y - pos.y, d.x - pos.x)

\* the trail indices the collision loop visits: 15, 19, 23, ... below n
EveryFourthFrom15(n) == { i \in 0..(n - 1) : i >= 15 /\ (i - 15) % 4 = 0 }

\* C22: a playing tick resets exactly when some trail index i in 15, 19, 23,
\* ... below the trail length has the head closer than 5 to trail[i] and
\* trail[i] closer than 50 to trail[i-1]; no other index can trigger a reset.
C22_ResetIffSampledHit ==
  [][ (last'.op = "loop" /\ last'.played) =>
        ( last'.hit <=>
            \E i \in EveryFourthFrom15(Len(NextTrail)) :
               /\ DistSq(NextHead, NextTrail[i + 1]) < Sq(Px(5))
               /\ DistSq(NextTrail[i + 1], NextTrail[i]) < Sq(Px(50)) ) ]_vars
\* a playing tick has not reset although the head is closer than 5 to a trail
\* point beyond index 15 that the loop does not visit
C22_Witness ==
  /\ Played /\ ~last.hit
  /\ \E i \in 15..(Len(history) - 1) :
       /\ i \notin EveryFourthFrom15(Len(history))
       /\ DistSq(pos, history[i + 1]) < Sq(Px(5))
       /\ DistSq(history[i + 1], history[i]) < Sq(Px(50))

\* C23: a resize event changes the stored width and height and nothing of
\* head, angle, targetAngle, trail, score, food or play flag; the playing
\* tick that follows wraps the head against the new width and height.
C23_ResizeOnlyBounds ==
  [][ /\ last'.op = "resize" =>
           /\ pos' = pos /\ angle' = angle /\ targetAngle' = targetAngle
           /\ history' = history /\ score' = score /\ food' = food
           /\ isPlaying' = isPlaying /\ isPlayingRef' = isPlayingRef
      /\ (last.op = "resize" /\ last'.op = "loop" /\ last'.played
            /\ ~last'.hit) =>
           pos' = WrapHead(MoveHead(pos, angle'), width, height) ]_vars
\* the head started in the wide container and the first tick has wrapped it
\* to 0 against the width of the narrow one
C23_Witness ==
  /\ Played /\ ~last.hit /\ ticks = 1
  /\ width = SizeA.w
  /\ history[2] = StartPos(SizeB.w, SizeB.h)
  /\ pos.x = 0

\* C24: after every playing tick that does not reset, the head lies within
\* 0..width and 0..height as stored at that tick, wherever it stood before.
C24_HeadInBounds ==
  (Played /\ ~last.hit) =>
     /\ 0 <= pos.x /\ pos.x <= width
     /\ 0 <= pos.y /\ pos.y <= height
\* the head stood outside the shrunken container before the tick
C24_Witness ==
  /\ Played /\ ~last.hit
  /\ history[2].x > width + SPEED /\ history[2].y > height + SPEED
  /\ 0 <= pos.x /\ pos.x <= width /\ 0 <= pos.y /\ pos.y <= height

\* C25: between resets the trail never gets shorter and a playing tick adds
\* at most one point: the tick takes the cap from the score as it finds it
\* (before a pickup of the same tick is counted), adds exactly one point
\* while the trail is below that cap and keeps the length once it is reached.
C25_GrowsToCap ==
  [][ /\ (last'.op = "loop" /\ last'.played /\ ~last'.hit) =>
           LET cap == (20 + score * 10) * 4
           IN  /\ Len(history') >= Len(history)
               /\ Len(history') = (IF Len(history) < cap
                                   THEN Len(history) + 1 ELSE Len(history))
      /\ ~(last'.op = "loop" /\ last'.played) =>
           Len(history') = Len(history) ]_vars
\* one pickup: the trail has grown from 80 to the new cap of 120 and the
\* last tick has kept it there
C25_Witness ==
  /\ Played /\ ~last.hit /\ ~last.ate
  /\ score = 1 /\ Len(history) = 120 /\ ticks > 41

(* ----------------------- claims: storage service ---------------------- *)
\* the profile a call made now works on, and whether a check is refused
Current == getUserProfile(profile, now)
Denied ==
  ~( \/ Current.subscriptionStatus \in { "LIFETIME", "ACTIVE" }
     \/ /\ Current.subscriptionStatus = "TRIAL"
        /\ now - Current.trialStartDate <= 7 * 24 )
ExpiredStored == profile # NoProfile /\ profile.subscriptionStatus = "EXPIRED"
\* what checkSubscriptionAccess returns and stores
CheckAsClaimed ==
  out'.op = "check" =>
    /\ out'.ok = ~Denied
    /\ IF Current.subscriptionStatus = "TRIAL"
          /\ now - Current.trialStartDate > 7 * 24
       THEN /\ profile' # NoProfile
            /\ profile'.subscriptionStatus = "EXPIRED"
            /\ ~out'.ok
       ELSE profile' = profile
Unlocks == out'.op = "activate" \/ (out'.op = "redeem" /\ out'.ok)

C27_TrialFixedAtFirstUse ==
  (out.op = "check" /\ firstUse # NoDate /\ now - firstUse > 7 * 24)
     => ~out.ok

\* C28: for a profile in TRIAL, getTrialDaysLeft is positive exactly when the
\* check grants access; for any other status it returns 0; its result lies
\* in 0..7 when the trial did not begin in the future.
C28_DaysLeftAgrees ==
  out.op = "daysLeft" =>
    /\ Current.subscriptionStatus = "TRIAL" => (out.n > 0 <=> ~Denied)
    /\ Current.subscriptionStatus # "TRIAL" => out.n = 0
    /\ (Current.subscriptionStatus = "TRIAL" /\ Current.trialStartDate <= now)
         => (0 <= out.n /\ out.n <= 7)

\* the secret code with or without blanks around it
SecretPadded == { SECRET_CODE, << " " >> \o SECRET_CODE \o << " " >> }
Paid == profile # NoProfile /\ profile.subscriptionStatus \in { "LIFETIME", "ACTIVE" }
PaidAfter ==
  profile' # NoProfile /\ profile'.subscriptionStatus \in { "LIFETIME", "ACTIVE" }

\* C29: redeemSecretCode returns true and stores LIFETIME with plan NONE
\* exactly when the trimmed code is the secret code, else it returns false
\* and stores nothing; from then on access is granted whatever check,
\* activateSubscription, setPersona, toggleTheme, updateStreak and
\* markLearningTopicComplete calls follow.
C29_SecretCodeUnlocks ==
  [][ /\ out'.op = "redeem" =>
           IF out'.arg \in SecretPadded
           THEN /\ out'.ok
                /\ profile' # NoProfile
                /\ profile'.subscriptionStatus = "LIFETIME"
                /\ profile'.subscriptionPlan = "NONE"
           ELSE ~out'.ok /\ profile' = profile
      /\ (Paid /\ out'.op \in { "check", "activate", "setPersona",
                                "toggleTheme", "updateStreak", "topic",
                                "wait" }) =>
           /\ PaidAfter
           /\ out'.op = "check" => out'.ok ]_vars
\* redeemed with blanks around the code, then the theme toggled, a topic
\* completed and the streak updated, and a check has granted access
C29_Witness ==
  /\ out.op = "check" /\ out.ok
  /\ profile # NoProfile /\ profile.subscriptionStatus = "LIFETIME"
  /\ profile.theme = "dark" /\ profile.streak > 0
  /\ Len(profile.completedLearningTopics) > 0

\* claims: digest history
HasId(list, id) == \E i \in 1..Len(list) : list[i].id = id

\* C30: from an empty history, saveDigest and deleteDigest never leave two
\* digests with one id: saving an id that is there replaces that digest in
\* place and leaves the profile alone, saving a new id puts the digest at
\* the front and updates the streak for today, and getDigestById of the
\* saved digest's id returns it.
C30_DigestIdsUnique ==
  [][ /\ \A i, j \in 1..Len(digests') :
           digests'[i].id = digests'[j].id => i = j
      /\ out'.op = "saveDigest" =>
           LET d == out'.arg[1]
           IN  /\ IF HasId(digests, d.id)
                  THEN /\ Len(digests') = Len(digests)
                       /\ \A i \in 1..Len(digests) :
                            digests'[i] =
                              IF digests[i].id = d.id THEN d ELSE digests[i]
                       /\ profile' = profile
                  ELSE /\ digests' = << d >> \o digests
                       /\ profile' # NoProfile
                       /\ profile'.lastVisit = Today(now)
                       /\ profile'.streak >= 1
               /\ getDigestById(digests', d.id) = d ]_vars
\* three digests stored, and the last call replaced the middle one in place
C30_Witness ==
  /\ out.op = "saveDigest" /\ ~out.ok /\ out.n = 2
  /\ Len(digests) = 3 /\ digests[2] = out.arg[1]
  /\ digests[2].text # digests[1].text

\* claims: streak
Contains(seq, x) == \E i \in 1..Len(seq) : seq[i] = x

\* C31: updateStreak leaves the profile alone when lastVisit is today;
\* otherwise the streak is the previous one plus 1 when lastVisit was the
\* day before today and 1 for any other lastVisit, longestStreak is the
\* larger of its previous value and the new streak, today is in
\* activityHistory once, and totalDigests is one more; longestStreak is
\* never below streak.
C31_StreakOncePerDay ==
  [][ out'.op = "updateStreak" =>
        LET pr == getUserProfile(profile, now)
            today == Today(now)
        IN  IF pr.lastVisit = today
            THEN profile' = profile
            ELSE /\ profile'.streak =
                      IF pr.lastVisit # NoDay /\ pr.lastVisit = today - 1
                      THEN pr.streak + 1 ELSE 1
                 /\ profile'.longestStreak =
                      Max(pr.longestStreak, profile'.streak)
                 /\ profile'.longestStreak >= profile'.streak
                 /\ profile'.lastVisit = today
                 /\ Contains(profile'.activityHistory, today)
                 /\ Len(profile'.activityHistory) =
                      Len(pr.activityHistory)
                        + (IF Contains(pr.activityHistory, today) THEN 0 ELSE 1)
                 /\ profile'.totalDigests = pr.totalDigests + 1 ]_vars

\* claims: saved insights
Keeps(list, section, sourceDigestId) ==
  \E i \in 1..Len(list) :
    list[i].section = section /\ list[i].sourceDigestId = sourceDigestId

\* C32: the collection never holds two insights with one id; saving a
\* section of a digest that is saved already changes nothing; after
\* saveInsight isInsightSaved of that title and digest is true and after
\* removeInsight of its id false; and every saved section is retained next
\* to the other sections of its digest.
C32_InsightsUnique ==
  [][ /\ \A i, j \in 1..Len(insights') :
           insights'[i].id = insights'[j].id => i = j
      /\ out'.op = "saveInsight" =>
           LET section == out'.arg[1]
               sourceDigestId == out'.arg[2]
           IN  /\ Keeps(insights, section, sourceDigestId) =>
                    insights' = insights
               /\ isInsightSaved(insights', section.title, sourceDigestId)
               /\ Keeps(insights', section, sourceDigestId)
               /\ \A i \in 1..Len(insights) :
                    Keeps(insights', insights[i].section,
                          insights[i].sourceDigestId)
      /\ out'.op = "removeInsight" =>
           /\ ~HasInsight(insights', out'.arg[1])
           /\ \A t \in Titles, d \in SourceDigests :
                InsightId(d, t) = out'.arg[1] =>
                  ~isInsightSaved(insights', t, d) ]_vars

\* claims: backup
Cleared ==
  /\ profile = NoProfile /\ digests = << >>
  /\ insights = << >> /\ topics = << >> /\ notes = << >>

Untouched == UNCHANGED << profile, topics, insights, notes, digests >>
\* one key after an import: it may differ only if the field is there
OnlyGiven(json, name, old, new) == new # old => json[name].kind # "absent"

\* C34: importUserData returns false and changes no key when the string is
\* no JSON or is JSON that is not an object; when it returns true only the
\* keys whose fields are in the object are overwritten, and the digest
\* history never.
C34_ImportRejectsNonObjects ==
  [][ out'.op = "import" =>
        LET json == out'.arg[1]
        IN  /\ json.kind # "document" => ~out'.ok /\ Untouched
            /\ (out'.ok /\ json.kind = "document") =>
                 /\ OnlyGiven(json, "profile", profile, profile')
                 /\ OnlyGiven(json, "topics", topics, topics')
                 /\ OnlyGiven(json, "savedInsights", insights, insights')
                 /\ OnlyGiven(json, "notes", notes, notes')
                 /\ digests' = digests ]_vars

\* C34 as the code has it: false exactly for a string that is no JSON and
\* for null; any other JSON value that is not an object (a number, an
\* array) gives true and changes nothing; of an object every field that is
\* there and not null replaces its key, the other keys and the digest
\* history stay.
C34_ImportRejectsUnreadable ==
  [][ out'.op = "import" =>
        LET json == out'.arg[1]
            After(name, old) ==
              IF json[name].kind \in { "absent", "null" }
              THEN old ELSE json[name].value
        IN  /\ out'.ok <=> json.kind \notin { "invalid", "null" }
            /\ json.kind # "document" => Untouched
            /\ json.kind = "document" =>
                 /\ profile' = After("profile", profile)
                 /\ topics' = After("topics", topics)
                 /\ insights' = After("savedInsights", insights)
                 /\ notes' = After("notes", notes)
                 /\ digests' = digests ]_vars
\* the JSON text 5 was imported into a store that holds a digest and a note:
\* true came back and nothing was touched
C34_Witness ==
  /\ out.op = "import" /\ out.ok /\ out.arg[1].kind = "number"
  /\ digests # << >> /\ notes # << >> /\ topics # << >>
====
